---- MODULE Spec2Model ----
(***************************************************************************)
(* GoalPulse task store (src/task_manager.py): the SQLite table `tasks`    *)
(* and the TaskManager operations on it.                                   *)
(*                                                                         *)
(* A nullable column holds NULL == <<>> or Some(v) == <<v>>.  Text that    *)
(* is only compared for order (due_date, ISO YYYY-MM-DD) is written as the *)
(* number made of its digits: for zero-padded fixed-width text the text    *)
(* comparison SQLite applies and the numeric comparison agree.  Timestamps *)
(* "%Y-%m-%d %H:%M:%S" are written as the reading of a seconds clock.      *)
(***************************************************************************)
EXTENDS Integers, Sequences, FiniteSets, TLC

VARIABLES tasks, seq, now, lastOp, conns, listener, window

vars == <<tasks, seq, now, lastOp, conns, listener, window>>

\* ---------------------------------------------------------------- bounds
\* minutes since the machine booted that the listener is followed for
MaxElapsed == 12
\* launches of the application within one boot
MaxLaunches == 3
\* number of rows ever inserted (AUTOINCREMENT never reuses an id)
MaxId == 2
\* last reading of the seconds clock
MaxClock == 2

\* ------------------------------------------------------- values and inputs
NULL == <<>>
Some(v) == <<v>>

\* the ids a caller may pass: those the store can hold and one it never holds
TaskIds == 1..(MaxId + 1)

\* Opt(S): an argument that is absent (NULL) or given (Some(v))
Opt(S) == {NULL} \cup {Some(v) : v \in S}

\* The arguments the callers may pass.  The store takes any value: nothing in
\* add_task or update_task inspects an argument before it is bound to the SQL.
Titles == {"", "Buy milk"}
Descriptions == {"", "2 litres"}
\* None, "" (what the task dialog passes for a blank field), "2025-01-02",
\* "2025-01-05"
DueDates == {NULL, Some(0), Some(20250102), Some(20250105)}
Priorities == {-1, 0, 3, 4}
Statuses == {"pending", "completed", "archived"}

\* An environment: the argument values one specification draws from.
Env(titles, descriptions, due_dates, priorities, statuses) ==
  [ titles |-> titles, descriptions |-> descriptions, due_dates |-> due_dates,
    priorities |-> priorities, statuses |-> statuses ]

\* **kwargs of update_task: each allowed key absent or given, and whether a key
\* outside allowed_fields is passed as well
Kwargs(E) ==
  [ title : Opt(E.titles), description : Opt(E.descriptions),
    due_date : Opt(E.due_dates), priority : Opt(E.priorities),
    status : Opt(E.statuses), other : BOOLEAN ]

\* self.encouragements: ten fixed strings (written here in ASCII)
encouragements ==
  << "Great work today", "Feels good to finish - keep going",
     "Your persistence makes miracles", "You are tomorrow's star",
     "One step closer to the goal", "Code stronger than caffeine",
     "Amazing efficiency", "Each finished task is a step to success",
     "Your progress shows", "Persistence pays - you did it" >>

\* ------------------------------------------------------------ the table
\* a changed InsertRow: priority left out of the INSERT (the column's DEFAULT 0)
InsertRow_DefaultPriority(id, title, description, due_date, priority, created_at) ==
  [ id |-> id, title |-> title, description |-> description,
    due_date |-> due_date, priority |-> 0, status |-> "pending",
    created_at |-> created_at, completed_at |-> NULL ]

\* INSERT INTO tasks (title, description, due_date, priority, status, created_at)
InsertRow(id, title, description, due_date, priority, created_at) ==
  [ id |-> id, title |-> title, description |-> description,
    due_date |-> due_date, priority |-> priority, status |-> "pending",
    created_at |-> created_at, completed_at |-> NULL ]

\* SELECT * FROM tasks WHERE id = ? ; fetchone(): the row or None
GetRow(table, task_id) ==
  IF task_id \in DOMAIN table THEN Some(table[task_id]) ELSE NULL

get_task(task_id) == GetRow(tasks, task_id)

\* a changed PendingIds: the pending rows that carry a due date
PendingIds_Dated(table) ==
  {i \in DOMAIN table : table[i].status = "pending" /\ table[i].due_date # NULL}

\* WHERE status = 'pending'
PendingIds(table) == {i \in DOMAIN table : table[i].status = "pending"}

\* SELECT COUNT(*) FROM tasks WHERE status = 'pending'
CountPending(table) == Cardinality(PendingIds(table))

get_pending_tasks_count == CountPending(tasks)

\* a changed DueDateBefore: NULL ordered after every other value
DueDateBefore_NullsLast(a, b) ==
  \/ a # NULL /\ b = NULL
  \/ a # NULL /\ b # NULL /\ a[1] < b[1]

\* due_date ASC: SQLite orders NULL before every other value, then text by
\* comparison
DueDateBefore(a, b) ==
  \/ a = NULL /\ b # NULL
  \/ a # NULL /\ b # NULL /\ a[1] < b[1]

\* ORDER BY priority DESC, due_date ASC: row a must come before row b
OrderedBefore(a, b) ==
  \/ a.priority > b.priority
  \/ a.priority = b.priority /\ DueDateBefore(a.due_date, b.due_date)

\* The lists the query may return: the pending rows, each once, in an order
\* that respects ORDER BY.  Rows that tie on both keys come in an order SQL
\* leaves open.
TodayTasks(table) ==
  LET P == PendingIds(table)
      n == Cardinality(P)
  IN  { [k \in 1..n |-> table[f[k]]] :
          f \in { g \in [1..n -> P] :
                    /\ \A i, j \in 1..n : i # j => g[i] # g[j]
                    /\ \A i, j \in 1..n :
                         i < j => ~OrderedBefore(table[g[j]], table[g[i]]) } }

get_today_tasks == TodayTasks(tasks)

\* update_fields = {k: v for k, v in kwargs.items() if k in allowed_fields};
\* "if not update_fields: return False"
HasUpdateFields(kwargs) ==
  \/ kwargs.title # NULL
  \/ kwargs.description # NULL
  \/ kwargs.due_date # NULL
  \/ kwargs.priority # NULL
  \/ kwargs.status # NULL

\* a changed StampsCompletedAt: the completion time is never recorded
StampsCompletedAt_Never(kwargs) == FALSE

\* if update_fields.get("status") == "completed":
\*     update_fields["completed_at"] = now
StampsCompletedAt(kwargs) == kwargs.status = Some("completed")

\* UPDATE tasks SET <given fields> WHERE id = ? on the row it matches
UpdateRow(row, kwargs, t) ==
  [ row EXCEPT
      !.title = IF kwargs.title # NULL THEN kwargs.title[1] ELSE @,
      !.description = IF kwargs.description # NULL THEN kwargs.description[1] ELSE @,
      !.due_date = IF kwargs.due_date # NULL THEN kwargs.due_date[1] ELSE @,
      !.priority = IF kwargs.priority # NULL THEN kwargs.priority[1] ELSE @,
      !.status = IF kwargs.status # NULL THEN kwargs.status[1] ELSE @,
      !.completed_at = IF StampsCompletedAt(kwargs) THEN Some(t) ELSE @ ]

\* a changed UpdatedTable: UPDATE without its WHERE clause
UpdatedTable_AllRows(table, task_id, kwargs, t) ==
  IF HasUpdateFields(kwargs) /\ task_id \in DOMAIN table
  THEN [i \in DOMAIN table |-> UpdateRow(table[i], kwargs, t)]
  ELSE table

\* the table after update_task(task_id, **kwargs) at time t
UpdatedTable(table, task_id, kwargs, t) ==
  IF HasUpdateFields(kwargs) /\ task_id \in DOMAIN table
  THEN [table EXCEPT ![task_id] = UpdateRow(@, kwargs, t)]
  ELSE table

\* success = cursor.rowcount > 0 (False at once when no allowed field is given)
UpdateSucceeds(table, task_id, kwargs) ==
  HasUpdateFields(kwargs) /\ task_id \in DOMAIN table

\* update_task(task_id, status="completed")
CompleteKwargs ==
  [ title |-> NULL, description |-> NULL, due_date |-> NULL, priority |-> NULL,
    status |-> Some("completed"), other |-> FALSE ]

\* a changed DeletedTable: DELETE without its WHERE clause
DeletedTable_AllRows(table, task_id) == <<>>

\* DELETE FROM tasks WHERE id = ?
DeletedTable(table, task_id) ==
  [i \in DOMAIN table \ {task_id} |-> table[i]]

\* a changed NextRowId: id INTEGER PRIMARY KEY without AUTOINCREMENT, which
\* hands out the largest stored rowid plus one
NextRowId_MaxRowid(table, s) ==
  IF DOMAIN table = {} THEN 1
  ELSE (CHOOSE m \in DOMAIN table : \A i \in DOMAIN table : i <= m) + 1

\* id INTEGER PRIMARY KEY AUTOINCREMENT: one more than the largest rowid the
\* table ever held (s, SQLite's sqlite_sequence entry)
NextRowId(table, s) == s + 1

Result(op, id, ok, msg) == [op |-> op, id |-> id, ok |-> ok, msg |-> msg]

\* ----------------------------------------------------------- operations
\* the connections that may have a call in progress: sqlite3.connect(self.db_path)
\* is made anew by every call, from the window's thread or another process
Clients == {"c1", "c2"}

\* a connection with no statement executed
NoTxn ==
  [ pc |-> "idle", op |-> "", id |-> 0, before |-> <<>>, after |-> <<>>, seq |-> 0,
    result |-> Result("", 0, FALSE, "") ]

Init ==
  /\ tasks = <<>>
  /\ seq = 0
  /\ now = 1
  /\ lastOp = Result("init", 0, TRUE, "")
  /\ conns = [c \in Clients |-> NoTxn]
  /\ listener = [ launched |-> FALSE, launches |-> 0, elapsed |-> 0, marker |-> NULL,
                  startups |-> 0 ]
  /\ window = [status |-> 0, ui |-> "idle", check |-> "read", pending_count |-> 0]

\* datetime.now() moves on between calls
Tick ==
  /\ now < MaxClock
  /\ now' = now + 1
  /\ UNCHANGED <<tasks, seq, lastOp>>

\* add_task: returns cursor.lastrowid
AddTask(title, description, due_date, priority) ==
  /\ seq < MaxId
  /\ LET id == NextRowId(tasks, seq)
     IN  /\ tasks' = [i \in DOMAIN tasks \cup {id} |->
                        IF i = id
                        THEN InsertRow(id, title, description, due_date, priority, now)
                        ELSE tasks[i]]
         /\ lastOp' = Result("add_task", id, TRUE, "")
  /\ seq' = seq + 1
  /\ UNCHANGED now

\* update_task: returns success
UpdateTask(task_id, kwargs) ==
  /\ tasks' = UpdatedTable(tasks, task_id, kwargs, now)
  /\ lastOp' = Result("update_task", task_id, UpdateSucceeds(tasks, task_id, kwargs), "")
  /\ UNCHANGED <<seq, now>>

\* delete_task: returns success
DeleteTask(task_id) ==
  /\ tasks' = DeletedTable(tasks, task_id)
  /\ lastOp' = Result("delete_task", task_id, task_id \in DOMAIN tasks, "")
  /\ UNCHANGED <<seq, now>>

\* complete_task: returns (True, random.choice(self.encouragements)) or (False, "")
CompleteTask(task_id, choice) ==
  /\ tasks' = UpdatedTable(tasks, task_id, CompleteKwargs, now)
  /\ lastOp' = IF UpdateSucceeds(tasks, task_id, CompleteKwargs)
               THEN Result("complete_task", task_id, TRUE, encouragements[choice])
               ELSE Result("complete_task", task_id, FALSE, "")
  /\ UNCHANGED <<seq, now>>

Add(E) ==
  \E title \in E.titles, description \in E.descriptions,
     due_date \in E.due_dates, priority \in E.priorities :
    AddTask(title, description, due_date, priority)

Update(E) == \E task_id \in TaskIds, kwargs \in Kwargs(E) : UpdateTask(task_id, kwargs)

Delete == \E task_id \in TaskIds : DeleteTask(task_id)

Complete ==
  \E task_id \in TaskIds, choice \in DOMAIN encouragements : CompleteTask(task_id, choice)

\* ------------------------------------------------------- specifications
\* The life cycle of a task: every operation, every status, the clock.
LifecycleAdds == Env({"Buy milk"}, {""}, {NULL}, {0}, {})
LifecycleUpdates == Env({}, {}, {}, {}, Statuses)

\* a call served at once by the store alone: no connection is left open, and
\* the listener and the window take no part
StoreOnly == UNCHANGED <<conns, listener, window>>

Next ==
  \/ Tick /\ StoreOnly
  \/ Add(LifecycleAdds) /\ StoreOnly
  \/ Update(LifecycleUpdates) /\ StoreOnly
  \/ Delete /\ StoreOnly
  \/ Complete /\ StoreOnly

Spec == Init /\ [][Next]_vars

\* The fields of a task: add_task and update_task over the argument values.
FieldsAdds == Env(Titles, Descriptions, {NULL, Some(20250102)}, Priorities, {})
FieldsUpdates == Env({}, {}, {}, Priorities, {})

NextFields ==
  \/ Add(FieldsAdds) /\ StoreOnly
  \/ Update(FieldsUpdates) /\ StoreOnly

SpecFields == Init /\ [][NextFields]_vars

\* The order of the pending list: priorities and due dates.
OrderAdds == Env({"Buy milk"}, {""}, DueDates, {1, 3}, {})
OrderUpdates == Env({}, {}, {}, {}, {"completed"})

NextOrder ==
  \/ Add(OrderAdds) /\ StoreOnly
  \/ Update(OrderUpdates) /\ StoreOnly
  \/ Delete /\ StoreOnly

SpecOrder == Init /\ [][NextOrder]_vars

\* ------------------------------------------------- calls that can fail
\* A mutating call step by step: sqlite3.connect, cursor.execute (which opens
\* the connection's transaction and takes the database's write lock),
\* conn.commit.  An sqlite3.Error at any of them leaves the function through
\* "except sqlite3.Error: ... raise" with the connection neither committed nor
\* closed; the connection is dropped with the frame and its transaction is
\* rolled back.

\* a changed WriteLocked: the database lets two connections write at once
WriteLocked_Never(c) == FALSE

\* another connection holds the write lock: cursor.execute raises
\* sqlite3.OperationalError (database is locked)
WriteLocked(c) == \E d \in Clients \ {c} : conns[d].pc = "executed"

\* a changed AfterError: the pending transaction is committed on the way out
AfterError_Committed(persisted, pending) == pending

\* the table once a call has raised: the transaction is rolled back
AfterError(persisted, pending) == persisted

\* the call raised
Raised(op, id) == Result(op, id, FALSE, "sqlite3.Error")

\* cursor.execute of a call's statement on connection c: `after` is the table
\* as the connection sees it, `result` what the call returns once committed
Execute(c, op, id, after, seqAfter, result) ==
  /\ conns[c].pc = "idle"
  /\ IF WriteLocked(c)
     THEN /\ lastOp' = Raised(op, id)
          /\ UNCHANGED conns
     ELSE /\ conns' = [conns EXCEPT ![c] =
                         [ pc |-> "executed", op |-> op, id |-> id, before |-> tasks,
                           after |-> after, seq |-> seqAfter, result |-> result ]]
          /\ UNCHANGED lastOp
  /\ UNCHANGED <<tasks, seq, now, listener, window>>

\* add_task up to cursor.lastrowid
ExecuteAdd(c, title, description, due_date, priority) ==
  /\ seq < MaxId
  /\ LET id == NextRowId(tasks, seq)
     IN  Execute(c, "add_task", id,
                 [i \in DOMAIN tasks \cup {id} |->
                    IF i = id
                    THEN InsertRow(id, title, description, due_date, priority, now)
                    ELSE tasks[i]],
                 seq + 1, Result("add_task", id, TRUE, ""))

\* update_task up to cursor.rowcount; without an allowed field it returns False
\* before it connects
ExecuteUpdate(c, task_id, kwargs) ==
  IF HasUpdateFields(kwargs)
  THEN Execute(c, "update_task", task_id, UpdatedTable(tasks, task_id, kwargs, now), seq,
               Result("update_task", task_id, UpdateSucceeds(tasks, task_id, kwargs), ""))
  ELSE /\ conns[c].pc = "idle"
       /\ lastOp' = Result("update_task", task_id, FALSE, "")
       /\ UNCHANGED <<tasks, seq, now, conns, listener, window>>

\* delete_task up to cursor.rowcount
ExecuteDelete(c, task_id) ==
  Execute(c, "delete_task", task_id, DeletedTable(tasks, task_id), seq,
          Result("delete_task", task_id, task_id \in DOMAIN tasks, ""))

\* conn.commit(): the transaction becomes the stored table and the call returns
Commit(c) ==
  /\ conns[c].pc = "executed"
  /\ tasks' = conns[c].after
  /\ seq' = conns[c].seq
  /\ lastOp' = conns[c].result
  /\ conns' = [conns EXCEPT ![c] = NoTxn]
  /\ UNCHANGED <<now, listener, window>>

\* an sqlite3.Error after the statement and before the commit has taken effect
\* (disk I/O error, disk full): the call raises
StorageError(c) ==
  /\ conns[c].pc = "executed"
  /\ tasks' = AfterError(tasks, conns[c].after)
  /\ lastOp' = Raised(conns[c].op, conns[c].id)
  /\ conns' = [conns EXCEPT ![c] = NoTxn]
  /\ UNCHANGED <<seq, now, listener, window>>

\* Calls that can fail, from two connections: updates and deletes of the same
\* ids interleave.
TxnAdds == Env({"Buy milk"}, {""}, {NULL}, {0}, {})
TxnUpdates == Env({}, {}, {}, {3}, {"completed"})

NextTxn ==
  \/ \E c \in Clients, title \in TxnAdds.titles, description \in TxnAdds.descriptions,
        due_date \in TxnAdds.due_dates, priority \in TxnAdds.priorities :
       ExecuteAdd(c, title, description, due_date, priority)
  \/ \E c \in Clients, task_id \in TaskIds, kwargs \in Kwargs(TxnUpdates) :
       ExecuteUpdate(c, task_id, kwargs)
  \/ \E c \in Clients, task_id \in TaskIds : ExecuteDelete(c, task_id)
  \/ \E c \in Clients : Commit(c)
  \/ \E c \in Clients : StorageError(c)

SpecTxn == Init /\ [][NextTxn]_vars

\* ------------------------------------------------------ the task dialog
\* Text typed into the dialog is the sequence of its characters, and is stored
\* as such by the calls the window makes.
Digits == {"0", "1", "2", "3", "4", "5", "6", "7", "8", "9"}
NonZeroDigits == Digits \ {"0"}

DigitValue(ch) ==
  CASE ch = "0" -> 0 [] ch = "1" -> 1 [] ch = "2" -> 2 [] ch = "3" -> 3
    [] ch = "4" -> 4 [] ch = "5" -> 5 [] ch = "6" -> 6 [] ch = "7" -> 7
    [] ch = "8" -> 8 [] ch = "9" -> 9

\* int() of a run of digits (a leading space, which %d's pattern admits, counts
\* for nothing)
RECURSIVE NumberOf(_)
NumberOf(text) ==
  IF text = <<>> THEN 0
  ELSE IF text[Len(text)] = " " THEN 0
  ELSE 10 * NumberOf(SubSeq(text, 1, Len(text) - 1)) + DigitValue(text[Len(text)])

\* str.strip()
RECURSIVE Strip(_)
Strip(text) ==
  IF text = <<>> THEN text
  ELSE IF Head(text) = " " THEN Strip(Tail(text))
  ELSE IF text[Len(text)] = " " THEN Strip(SubSeq(text, 1, Len(text) - 1))
  ELSE text

\* calendar.monthrange
DaysInMonth(year, month) ==
  IF month \in {4, 6, 9, 11} THEN 30
  ELSE IF month # 2 THEN 31
  ELSE IF (year % 4 = 0 /\ year % 100 # 0) \/ year % 400 = 0 THEN 29
  ELSE 28

\* datetime(year, month, day) does not raise
IsDate(year, month, day) ==
  /\ year >= 1
  /\ month \in 1..12
  /\ day \in 1..DaysInMonth(year, month)

\* %m: 1[0-2]|0[1-9]|[1-9]
MatchesMonth(text) ==
  \/ Len(text) = 2 /\ text[1] = "1" /\ text[2] \in {"0", "1", "2"}
  \/ Len(text) = 2 /\ text[1] = "0" /\ text[2] \in NonZeroDigits
  \/ Len(text) = 1 /\ text[1] \in NonZeroDigits

\* %d: 3[01]|[12]\d|0[1-9]|[1-9]| [1-9]
MatchesDay(text) ==
  \/ Len(text) = 2 /\ text[1] = "3" /\ text[2] \in {"0", "1"}
  \/ Len(text) = 2 /\ text[1] \in {"1", "2"} /\ text[2] \in Digits
  \/ Len(text) = 2 /\ text[1] = "0" /\ text[2] \in NonZeroDigits
  \/ Len(text) = 1 /\ text[1] \in NonZeroDigits
  \/ Len(text) = 2 /\ text[1] = " " /\ text[2] \in NonZeroDigits

\* datetime.strptime(text, "%Y-%m-%d") does not raise ValueError: four digits,
\* "-", a month, "-", a day, nothing left over, and a date of the calendar
Parses(text) ==
  /\ Len(text) >= 8
  /\ \A k \in 1..4 : text[k] \in Digits
  /\ text[5] = "-"
  /\ \E p \in 7..8 :
       /\ text[p] = "-"
       /\ \A k \in 6..(p - 1) : text[k] # "-"
       /\ MatchesMonth(SubSeq(text, 6, p - 1))
       /\ MatchesDay(SubSeq(text, p + 1, Len(text)))
       /\ IsDate(NumberOf(SubSeq(text, 1, 4)), NumberOf(SubSeq(text, 6, p - 1)),
                 NumberOf(SubSeq(text, p + 1, Len(text))))

\* what may be typed into the title, description and due date fields
TitleTexts == { <<>>, <<" ">>, <<"m", "i", "l", "k", " ">> }
DescriptionTexts == { <<>> }
DueTexts ==
  { <<>>, <<" ", " ">>,
    <<"2", "0", "2", "5", "-", "0", "1", "-", "0", "5">>,
    <<" ", "2", "0", "2", "4", "-", "0", "2", "-", "2", "9">>,
    <<"2", "0", "2", "5", "-", "1", "-", "5">>,
    <<"2", "0", "2", "5", "-", "0", "2", "-", "3", "0">>,
    <<"2", "0", "2", "5", "-", "1", "3", "-", "0", "1">>,
    <<"2", "0", "2", "5", "0", "1", "0", "5">>,
    <<"s", "o", "o", "n">> }
\* the radio buttons of the dialog
DialogPriorities == 0..3

\* TaskDialog._on_ok: dialog.result, None when the title is blank or the due
\* date does not parse
DialogResult(title_text, description_text, due_text, priority) ==
  LET title == Strip(title_text)
      description == Strip(description_text)
      due_date == Strip(due_text)
  IN  IF title = <<>> THEN NULL
      ELSE IF due_date # <<>> /\ ~Parses(due_date) THEN NULL
      ELSE Some([ title |-> title, description |-> description,
                  due_date |-> due_date, priority |-> priority ])

\* the dialog was closed without a result: no call is made
NoResult ==
  /\ lastOp' = Result("dialog", 0, FALSE, "")
  /\ UNCHANGED <<tasks, seq, now>>

\* AppWindow.add_task: add_task(title, description, due_date, priority) when the
\* dialog has a result
WindowAddTask(title_text, description_text, due_text, priority) ==
  LET result == DialogResult(title_text, description_text, due_text, priority)
  IN  IF result = NULL THEN NoResult
      ELSE AddTask(result[1].title, result[1].description,
                   Some(result[1].due_date), result[1].priority)

\* AppWindow.on_task_double_click: update_task(task_id, title=..., description=...,
\* due_date=..., priority=...) when the task is found and the dialog has a result
WindowEditTask(task_id, title_text, description_text, due_text, priority) ==
  LET result == DialogResult(title_text, description_text, due_text, priority)
  IN  /\ get_task(task_id) # NULL
      /\ IF result = NULL THEN NoResult
         ELSE UpdateTask(task_id,
                [ title |-> Some(result[1].title),
                  description |-> Some(result[1].description),
                  due_date |-> Some(Some(result[1].due_date)),
                  priority |-> Some(result[1].priority),
                  status |-> NULL, other |-> FALSE ])

NextDialog ==
  \/ /\ \E title_text \in TitleTexts, description_text \in DescriptionTexts,
           due_text \in DueTexts, priority \in DialogPriorities :
          WindowAddTask(title_text, description_text, due_text, priority)
     /\ StoreOnly
  \/ /\ \E task_id \in TaskIds, title_text \in TitleTexts,
           description_text \in DescriptionTexts,
           due_text \in DueTexts, priority \in DialogPriorities :
          WindowEditTask(task_id, title_text, description_text, due_text, priority)
     /\ StoreOnly

SpecDialog == Init /\ [][NextDialog]_vars

\* --------------------------------------------------- the startup signal
\* src/event_listener.py.  Times are whole minutes since the machine booted;
\* listener.marker is the time written in the startup_marker file, NULL when
\* the file does not exist.

\* timedelta(minutes=10)
StartupWindow == 10

\* the machine has been up one minute longer
Elapse ==
  /\ listener.elapsed < MaxElapsed
  /\ listener' = [listener EXCEPT !.elapsed = @ + 1]
  /\ UNCHANGED <<tasks, seq, now, lastOp, conns, window>>

\* _check_startup: booted less than ten minutes ago, so the marker is written
WritesMarker(elapsed) == elapsed < StartupWindow

\* EventListener(): __init__ runs _check_startup
Launch ==
  /\ ~listener.launched
  /\ listener.launches < MaxLaunches
  /\ listener' = [listener EXCEPT
                    !.launched = TRUE,
                    !.launches = @ + 1,
                    !.marker = IF WritesMarker(listener.elapsed)
                               THEN Some(listener.elapsed) ELSE @]
  /\ UNCHANGED <<tasks, seq, now, lastOp, conns, window>>

\* is_startup() returns True: the marker exists and is less than ten minutes old
IsStartupResult(marker, elapsed) ==
  marker # NULL /\ elapsed - marker[1] < StartupWindow

\* main: event_listener.is_startup(), once per launch; an existing marker is
\* removed whatever its age; True leads to app.show_today_tasks()
IsStartup ==
  /\ listener.launched
  /\ listener' = [listener EXCEPT
                    !.launched = FALSE,
                    !.marker = NULL,
                    !.startups = IF IsStartupResult(listener.marker, listener.elapsed)
                                 THEN @ + 1 ELSE @]
  /\ lastOp' = Result("is_startup", 0,
                      IsStartupResult(listener.marker, listener.elapsed), "")
  /\ UNCHANGED <<tasks, seq, now, conns, window>>

NextStartup == Elapse \/ Launch \/ IsStartup

SpecStartup == Init /\ [][NextStartup]_vars

\* ------------------------------------------------------- the status bar
\* src/gui/app_window.py.  window.status is the number status_var shows;
\* window.ui is "called" between a handler's call of the store and its
\* load_tasks(); window.check is where check_routine's thread stands and
\* window.pending_count its local variable.

\* the handlers of the window leave the connections and the listener alone
WindowStep(w) ==
  /\ window' = w
  /\ UNCHANGED <<conns, listener>>

\* AppWindow.add_task, up to load_tasks()
UiAddTask ==
  /\ window.ui = "idle"
  /\ AddTask("Buy milk", "", NULL, 0)
  /\ WindowStep([window EXCEPT !.ui = "called"])

\* AppWindow.complete_task on a row of the task list, up to load_tasks()
UiCompleteTask(task_id, choice) ==
  /\ window.ui = "idle"
  /\ task_id \in PendingIds(tasks)
  /\ CompleteTask(task_id, choice)
  /\ WindowStep([window EXCEPT !.ui = "called"])

\* AppWindow.delete_task on a row of the task list, up to load_tasks()
UiDeleteTask(task_id) ==
  /\ window.ui = "idle"
  /\ task_id \in PendingIds(tasks)
  /\ DeleteTask(task_id)
  /\ WindowStep([window EXCEPT !.ui = "called"])

\* load_tasks: status_var.set(len(tasks)) of get_today_tasks()
LoadTasks ==
  /\ window.ui = "called"
  /\ \E r \in get_today_tasks :
       WindowStep([window EXCEPT !.ui = "idle", !.status = Len(r)])
  /\ UNCHANGED <<tasks, seq, now, lastOp>>

\* check_routine: pending_count = get_pending_tasks_count()
CheckRead ==
  /\ window.check = "read"
  /\ WindowStep([window EXCEPT !.check = "set", !.pending_count = get_pending_tasks_count])
  /\ UNCHANGED <<tasks, seq, now, lastOp>>

\* check_routine: status_var.set(pending_count), then time.sleep(3600) begins
CheckSet ==
  /\ window.check = "set"
  /\ WindowStep([window EXCEPT !.check = "sleep", !.status = window.pending_count])
  /\ UNCHANGED <<tasks, seq, now, lastOp>>

\* check_routine: time.sleep(3600) returns
CheckWake ==
  /\ window.check = "sleep"
  /\ WindowStep([window EXCEPT !.check = "read"])
  /\ UNCHANGED <<tasks, seq, now, lastOp>>

NextWindow ==
  \/ UiAddTask
  \/ \E task_id \in TaskIds, choice \in DOMAIN encouragements :
       UiCompleteTask(task_id, choice)
  \/ \E task_id \in TaskIds : UiDeleteTask(task_id)
  \/ LoadTasks
  \/ CheckRead
  \/ CheckSet
  \/ CheckWake

SpecWindow == Init /\ [][NextWindow]_vars

\* ----------------------------------------------------------------- claims
Range(f) == {f[k] : k \in DOMAIN f}

\* the step is a call of op: lastOp holds the call each operation just served,
\* and only the clock's step leaves lastOp as it was
Called(op) == lastOp'.op = op /\ now' = now

\* C1: every stored task has completed_at present if and only if its status
\* is completed.
C1_CompletedAtIffCompleted ==
  \A i \in DOMAIN tasks :
    (tasks[i].completed_at # NULL) <=> (tasks[i].status = "completed")

\* C2: complete_task on a task that is already completed returns (False, "").
C2_SecondCompleteFails ==
  [][ \A task_id \in TaskIds, choice \in DOMAIN encouragements :
        ( /\ task_id \in DOMAIN tasks
          /\ tasks[task_id].status = "completed"
          /\ CompleteTask(task_id, choice) )
        => (lastOp'.ok = FALSE /\ lastOp'.msg = "") ]_vars

\* C3: add_task with an empty title fails and persists no row: the stored
\* tasks, the pending count and the pending list are as before the call.
C3_EmptyTitleRejected ==
  [][ \A description \in Descriptions, due_date \in DueDates, priority \in Priorities :
        AddTask("", description, due_date, priority)
        => /\ lastOp'.ok = FALSE
           /\ tasks' = tasks
           /\ CountPending(tasks') = CountPending(tasks)
           /\ TodayTasks(tasks') = TodayTasks(tasks) ]_vars

\* a list is in priority-descending order
PriorityDescending(r) ==
  \A i, j \in DOMAIN r : i < j => r[i].priority >= r[j].priority

\* among equal priorities, dated tasks are in due_date-ascending order
DatedAscending(r) ==
  \A i, j \in DOMAIN r :
    ( /\ i < j
      /\ r[i].priority = r[j].priority
      /\ r[i].due_date # NULL
      /\ r[j].due_date # NULL )
    => r[i].due_date[1] <= r[j].due_date[1]

\* C4: get_today_tasks() returns the pending tasks by priority descending and,
\* among equal priorities, by due_date ascending with the tasks that have no
\* due date after those that have one.
C4_UndatedLast ==
  \A r \in get_today_tasks :
    /\ \A k \in DOMAIN r : r[k].status = "pending"
    /\ PriorityDescending(r)
    /\ DatedAscending(r)
    /\ \A i, j \in DOMAIN r :
         (i < j /\ r[i].priority = r[j].priority /\ r[i].due_date = NULL)
         => r[j].due_date = NULL

\* C4 (amended): get_today_tasks() returns the pending tasks by priority
\* descending and, among equal priorities, by due_date ascending with the
\* tasks that have no due date before those that have one.
C4_UndatedFirst ==
  \A r \in get_today_tasks :
    /\ \A k \in DOMAIN r : r[k].status = "pending"
    /\ PriorityDescending(r)
    /\ DatedAscending(r)
    /\ \A i, j \in DOMAIN r :
         (i < j /\ r[i].priority = r[j].priority /\ r[j].due_date = NULL)
         => r[i].due_date = NULL

\* two pending tasks of one priority, one dated and one not, are listed
C4_Witness ==
  \E r \in get_today_tasks :
    /\ Len(r) = 2
    /\ r[1].priority = r[2].priority
    /\ r[1].due_date = NULL
    /\ r[2].due_date # NULL

\* C5: in every step a task's status is unchanged or goes from pending to
\* completed; no operation moves a task out of completed or to another value.
C5_StatusOneWay ==
  [][ \A i \in DOMAIN tasks \cap DOMAIN tasks' :
        \/ tasks'[i].status = tasks[i].status
        \/ tasks[i].status = "pending" /\ tasks'[i].status = "completed" ]_vars

\* C6: once a task's completed_at has a value, no later operation on the task
\* changes that value while the task exists.
C6_CompletedAtSetOnce ==
  [][ \A i \in DOMAIN tasks \cap DOMAIN tasks' :
        tasks[i].completed_at # NULL
        => tasks'[i].completed_at = tasks[i].completed_at ]_vars

\* C7: complete_task(id) on a pending task returns (True, m), m a non-empty
\* member of the catalog, and leaves the task completed with completed_at set
\* and every other field and every other task unchanged; on an id that is not
\* stored it returns (False, "") and changes nothing.
C7_CompleteTask ==
  [][ Called("complete_task")
      => LET task_id == lastOp'.id
         IN  /\ ( task_id \in DOMAIN tasks /\ tasks[task_id].status = "pending" )
                => /\ lastOp'.ok = TRUE
                   /\ lastOp'.msg \in Range(encouragements)
                   /\ lastOp'.msg # ""
                   /\ GetRow(tasks', task_id) # NULL
                   /\ tasks'[task_id].status = "completed"
                   /\ tasks'[task_id].completed_at # NULL
                   /\ [tasks'[task_id] EXCEPT !.status = "pending", !.completed_at = NULL]
                        = [tasks[task_id] EXCEPT !.completed_at = NULL]
                   /\ \A j \in TaskIds \ {task_id} : GetRow(tasks', j) = GetRow(tasks, j)
             /\ ( task_id \notin DOMAIN tasks )
                => /\ lastOp'.ok = FALSE
                   /\ lastOp'.msg = ""
                   /\ tasks' = tasks
                   /\ seq' = seq ]_vars

\* a pending task was completed while another task is stored
C7_Witness ==
  /\ lastOp.op = "complete_task"
  /\ lastOp.ok
  /\ lastOp.id \in DOMAIN tasks
  /\ tasks[lastOp.id].status = "completed"
  /\ tasks[lastOp.id].completed_at = Some(now)
  /\ tasks[lastOp.id].created_at < now
  /\ Cardinality(DOMAIN tasks) = 2

\* C8: after add_task with a non-empty title, get_task on the returned id
\* yields status pending, completed_at absent, and the title, description,
\* due_date and priority supplied.
C8_AddThenGet ==
  [][ Called("add_task")
      => \A title \in Titles \ {""}, description \in Descriptions,
            due_date \in DueDates, priority \in Priorities :
           AddTask(title, description, due_date, priority)
           => LET got == GetRow(tasks', lastOp'.id)
              IN  /\ got # NULL
                  /\ got[1].status = "pending"
                  /\ got[1].completed_at = NULL
                  /\ got[1].title = title
                  /\ got[1].description = description
                  /\ got[1].due_date = due_date
                  /\ got[1].priority = priority ]_vars

\* a task was added with every argument given a value other than its default
C8_Witness ==
  /\ lastOp.op = "add_task"
  /\ get_task(lastOp.id) # NULL
  /\ tasks[lastOp.id].title # ""
  /\ tasks[lastOp.id].description # ""
  /\ tasks[lastOp.id].due_date # NULL
  /\ tasks[lastOp.id].priority = 3

\* C9: every stored task has priority in {0,1,2,3}: an out-of-range priority
\* is never stored as given.
C9_PriorityInRange ==
  \A i \in DOMAIN tasks : tasks[i].priority \in 0..3

\* C10: delete_task on a stored id returns True, get_task(id) is then None and
\* the pending count is one less if the task was pending and unchanged
\* otherwise; on an id that is not stored it returns False and leaves the
\* stored tasks and the pending count unchanged.
C10_DeleteTask ==
  [][ Called("delete_task")
      => LET task_id == lastOp'.id
         IN  IF task_id \in DOMAIN tasks
             THEN /\ lastOp'.ok = TRUE
                  /\ GetRow(tasks', task_id) = NULL
                  /\ CountPending(tasks') =
                       CountPending(tasks)
                         - (IF tasks[task_id].status = "pending" THEN 1 ELSE 0)
             ELSE /\ lastOp'.ok = FALSE
                  /\ tasks' = tasks
                  /\ CountPending(tasks') = CountPending(tasks) ]_vars

\* a pending task was deleted and a completed task remains
C10_Witness ==
  /\ lastOp.op = "delete_task"
  /\ lastOp.ok
  /\ lastOp.id \notin DOMAIN tasks
  /\ \E i \in DOMAIN tasks : tasks[i].status = "completed"
  /\ get_pending_tasks_count = 0

\* C11: every id add_task returns differs from every id returned before, those
\* of deleted tasks included; no operation changes the id of a stored task;
\* an id that was deleted is never stored again.
C11_IdsUniqueAndStable ==
  [][ /\ DOMAIN tasks' \subseteq 1..seq'
      /\ Called("add_task") => lastOp'.id \notin 1..seq
      /\ \A i \in DOMAIN tasks \cap DOMAIN tasks' : tasks'[i].id = i
      /\ \A i \in 1..seq : GetRow(tasks, i) = NULL => GetRow(tasks', i) = NULL ]_vars

\* a task was added after the task with the largest id was deleted
C11_Witness ==
  /\ lastOp.op = "add_task"
  /\ lastOp.id = 2
  /\ get_task(1) = NULL
  /\ get_task(2) # NULL

\* some key of allowed_fields is given
GivesAllowedField(kwargs) ==
  \E k \in {"title", "description", "due_date", "priority", "status"} : kwargs[k] # NULL

\* C12: update_task with an id that is not stored returns False and creates or
\* modifies no task; with a stored id and at least one valid field it returns
\* True and modifies only that task.
C12_UpdateTask ==
  [][ Called("update_task")
      => \A kwargs \in Kwargs(OrderUpdates) :
           UpdateTask(lastOp'.id, kwargs)
           => LET task_id == lastOp'.id
              IN  /\ GetRow(tasks, task_id) = NULL
                     => lastOp'.ok = FALSE /\ tasks' = tasks
                  /\ ( GetRow(tasks, task_id) # NULL /\ GivesAllowedField(kwargs) )
                     => /\ lastOp'.ok = TRUE
                        /\ DOMAIN tasks' = DOMAIN tasks
                        /\ \A j \in DOMAIN tasks \ {task_id} : tasks'[j] = tasks[j] ]_vars

\* one of two stored tasks was updated and now differs from the other in status
C12_Witness ==
  /\ lastOp.op = "update_task"
  /\ lastOp.ok
  /\ DOMAIN tasks = {1, 2}
  /\ tasks[lastOp.id].status = "completed"
  /\ \E j \in DOMAIN tasks : tasks[j].status = "pending"

\* C13: get_today_tasks() holds exactly the tasks whose status is pending, each
\* once, whatever their due_date, and get_pending_tasks_count() is its length.
C13_PendingListAndCount ==
  /\ get_today_tasks # {}
  /\ \A r \in get_today_tasks :
       /\ {r[k].id : k \in DOMAIN r} = {i \in DOMAIN tasks : tasks[i].status = "pending"}
       /\ \A i, j \in DOMAIN r : i # j => r[i].id # r[j].id
       /\ get_pending_tasks_count = Len(r)

\* a pending task without a due date, a pending task with one, a completed task
C13_Witness ==
  /\ \E i \in DOMAIN tasks : tasks[i].status = "pending" /\ tasks[i].due_date = NULL
  /\ \E i \in DOMAIN tasks : tasks[i].status = "pending" /\ tasks[i].due_date = Some(20250105)
  /\ \E r \in get_today_tasks : Len(r) = 2

\* C14: a call that raises a storage error before its commit leaves the stored
\* tasks exactly as they were when the call began; every step either leaves
\* the stored tasks alone or replaces them by one call's statement applied in
\* full to the tasks stored just before, also when two connections interleave.
C14_AllOrNothing ==
  [][ \A c \in Clients :
        /\ ( conns[c].pc = "executed" /\ conns'[c].pc = "idle"
             /\ lastOp' = Raised(conns[c].op, conns[c].id) )
           => tasks' = conns[c].before /\ seq' = seq
        /\ ( conns[c].pc = "executed" /\ conns'[c].pc = "idle"
             /\ lastOp' # Raised(conns[c].op, conns[c].id) )
           => /\ conns[c].before = tasks
              /\ tasks' = conns[c].after
              /\ lastOp' = conns[c].result
        /\ ( \A d \in Clients : conns[d].pc = "executed" => conns'[d].pc = "executed" )
           => tasks' = tasks ]_vars

\* update_task(1, ...) raised after its statement ran, and task 1 is stored as
\* add_task left it
C14_Witness ==
  /\ lastOp = Raised("update_task", 1)
  /\ \A c \in Clients : conns[c].pc = "idle"
  /\ get_task(1) # NULL
  /\ tasks[1].status = "pending"
  /\ tasks[1].priority = 0
  /\ tasks[1].completed_at = NULL

\* text in the form YYYY-MM-DD that names a date of the calendar
IsIsoDate(text) ==
  /\ Len(text) = 10
  /\ \A k \in {1, 2, 3, 4, 6, 7, 9, 10} : text[k] \in Digits
  /\ text[5] = "-"
  /\ text[8] = "-"
  /\ IsDate(NumberOf(SubSeq(text, 1, 4)), NumberOf(SubSeq(text, 6, 7)),
            NumberOf(SubSeq(text, 9, 10)))

\* C15: every task created or edited through the dialog is stored with a
\* due_date that is absent or a valid ISO YYYY-MM-DD date.  (Absent is taken
\* here to cover the empty text the dialog passes for a blank field, which
\* the window shows as "no due date".)
C15_DueDateAbsentOrIso ==
  \A i \in DOMAIN tasks :
    \/ tasks[i].due_date = NULL
    \/ tasks[i].due_date = Some(<<>>)
    \/ IsIsoDate(tasks[i].due_date[1])

\* C16: within one boot is_startup() returns True at most once over all the
\* launches of the application.
C16_StartupAtMostOnce == listener.startups <= 1

\* C17: whenever no handler of the window is in progress and the check thread
\* sleeps, the status bar shows the number of pending tasks in the store.
C17_StatusShowsPendingCount ==
  (window.ui = "idle" /\ window.check = "sleep")
  => window.status = get_pending_tasks_count
====
